---- MODULE Spec2Model ----
(***************************************************************************)
(* A model of the nestjs-rr7 server: configuration validation, the         *)
(* selection of the GitHub status provider at startup, the cache-first     *)
(* DefaultGitHubStatusProvider.getSummary and the GitHubStatusIndicator    *)
(* health check that wraps it.                                             *)
(*                                                                         *)
(* Time is a millisecond clock that advances in steps of TickMs.  Texts    *)
(* (error messages, stacks, String(err)) are tuples of tokens, so that a   *)
(* message, a stack and a string form of the same value differ.            *)
(*                                                                         *)
(* Spec is the serving model.  Five more specifications over the same      *)
(* variables model the rest of the server, each leaving the others at      *)
(* rest: SpecConfig (the whole environment and the bootstrap sequence),    *)
(* SpecSsr (the SSR fallback middleware), SpecTelemetry (the NodeSDK       *)
(* lifecycle and withSpan), SpecLogger (wrapWithNestLogger) and SpecInit   *)
(* (repeated initFromEnv / initFromConfig calls).                          *)
(***************************************************************************)
EXTENDS Integers, Sequences, FiniteSets, TLC

(***************************************************************************)
(* Bounds of the model.                                                    *)
(***************************************************************************)
\* The clock stops after this many ticks.
MaxTicks == 5
\* No more upstream GETs than this are issued in one behaviour.
MaxGets == 2

(***************************************************************************)
(* Program constants.                                                      *)
(***************************************************************************)
\* Math.ceil(githubStatusCacheTtlMs / 1000)
MsPerSecond == 1000
\* readonly githubStatusCacheTtlMs: number = 60_000
DefaultCacheTtlMs == 60000

\* One step of the clock: half a second, so that a TTL that is not a whole
\* number of seconds and its rounding up are told apart.
TickMs == MsPerSecond \div 2
MaxNow == MaxTicks * TickMs

(***************************************************************************)
(* The environment.  A variable is absent (<<>>) or holds one value.       *)
(***************************************************************************)
Absent == <<>>

\* GITHUB_STATUS_PROVIDER_TYPE as it may be set
ProviderTypeEnv == {Absent, <<"mock">>, <<"default">>, <<"real">>, <<"bogus">>}

\* GITHUB_STATUS_CACHE_TTL_MS as it may be set (already a numeral)
CacheTtlEnv ==
  {Absent, <<-1>>, <<0>>, <<1>>, <<MsPerSecond>>, <<MsPerSecond + 1>>}

\* toNumber(): Number(value) of a numeral
toNumber(value) == value

\* @IsIn(['mock', 'default'])
GitHubStatusProviderTypes == {"mock", "default"}

\* plainToInstance with exposeDefaultValues: an absent variable keeps the
\* class's default; @Transform(toNumber()) is applied to a value that is set.
GitHubConfigInstance(source) ==
  [ githubStatusProviderType |->
      IF source.GITHUB_STATUS_PROVIDER_TYPE = Absent
        THEN "mock" ELSE source.GITHUB_STATUS_PROVIDER_TYPE[1],
    githubStatusCacheTtlMs |->
      IF source.GITHUB_STATUS_CACHE_TTL_MS = Absent
        THEN DefaultCacheTtlMs
        ELSE toNumber(source.GITHUB_STATUS_CACHE_TTL_MS[1]) ]

\* Faulty variant of ProviderTypeValid: the @IsIn constraint is missing.
ProviderTypeValidAny(kind) == TRUE

\* @IsIn on githubStatusProviderType
ProviderTypeValid(kind) == kind \in GitHubStatusProviderTypes

\* @IsInt and @Min(0) on githubStatusCacheTtlMs
CacheTtlValid(ttl) == ttl \in Int /\ ttl >= 0

\* validateSync: the properties that fail one of their constraints
GitHubConfigErrors(instance) ==
  (IF ProviderTypeValid(instance.githubStatusProviderType)
     THEN {} ELSE {"githubStatusProviderType"})
  \cup
  (IF CacheTtlValid(instance.githubStatusCacheTtlMs)
     THEN {} ELSE {"githubStatusCacheTtlMs"})

\* validateConfigSlice(GitHubConfig, env): the instance, or a throw
validateConfigSlice(source) ==
  LET instance == GitHubConfigInstance(source)
      errors == GitHubConfigErrors(instance)
  IN  IF Cardinality(errors) > 0
        THEN [threw |-> TRUE, errors |-> errors, instance |-> instance]
        ELSE [threw |-> FALSE, errors |-> {}, instance |-> instance]

\* Faulty variant of the factory: the two cases are swapped.
GitHubStatusProviderFactorySwapped(githubStatusProviderType) ==
  CASE githubStatusProviderType = "default" -> "MockGitHubStatusProvider"
    [] githubStatusProviderType = "mock" -> "DefaultGitHubStatusProvider"
    [] OTHER -> "throw"

\* Faulty variant of the factory: 'mock' falls through to the default provider.
GitHubStatusProviderFactoryNoMock(githubStatusProviderType) ==
  CASE githubStatusProviderType \in {"default", "mock"} ->
         "DefaultGitHubStatusProvider"
    [] OTHER -> "throw"

\* GitHubModule.GitHubStatusProviderFactory.useFactory: the provider the
\* token resolves to, or "throw" (Unknown githubStatusProviderType)
GitHubStatusProviderFactory(githubStatusProviderType) ==
  CASE githubStatusProviderType = "default" -> "DefaultGitHubStatusProvider"
    [] githubStatusProviderType = "mock" -> "MockGitHubStatusProvider"
    [] OTHER -> "throw"

(***************************************************************************)
(* The cache collaborator (CacheModule.register, one in-memory store):     *)
(* get(key) -> value | undefined, set(key, value, ttl); the store expires  *)
(* an entry ttl seconds after it was set.  What a TTL of 0 means is the    *)
(* store's choice: the entry is gone at once, or it never expires          *)
(* (zeroTtlPersists).  Only the key 'github-status:summary' is ever used.  *)
(***************************************************************************)
NoTime == 0 - 1
Undefined == "undefined"
NoEntry ==
  [key |-> "none", value |-> Undefined, storedAt |-> NoTime, ttl |-> 0]

\* An entry is live until ttl seconds have passed since it was set.
CacheLive(entry, persists, t) ==
  /\ entry # NoEntry
  /\ IF entry.ttl = 0
       THEN persists
       ELSE t < entry.storedAt + entry.ttl * MsPerSecond

\* cacheManager.get(key)
CacheGet(entry, key, persists, t) ==
  IF entry.key = key /\ CacheLive(entry, persists, t)
    THEN entry.value ELSE Undefined

\* What the store holds after a get: an expired entry is dropped.
CacheAfterGet(entry, persists, t) ==
  IF CacheLive(entry, persists, t) THEN entry ELSE NoEntry

\* cacheManager.set(key, value, ttl): replaces the entry
CacheSet(key, value, ttl, t) ==
  [key |-> key, value |-> value, storedAt |-> t, ttl |-> ttl]

(***************************************************************************)
(* DefaultGitHubStatusProvider.getSummary, in pieces.                      *)
(***************************************************************************)
\* The response bodies the upstream may send: JSON objects, hence truthy.
Bodies == {"summaryA", "summaryB"}

\* if (cachedSummary): undefined is falsy, an object is truthy
Truthy(cachedSummary) == cachedSummary # Undefined

\* Faulty variant of cacheTtlSeconds: Math.floor instead of Math.ceil.
cacheTtlSecondsFloor(githubStatusCacheTtlMs) ==
  githubStatusCacheTtlMs \div MsPerSecond

\* Faulty variant of cacheTtlSeconds: the milliseconds are passed as they are.
cacheTtlSecondsNoDivision(githubStatusCacheTtlMs) == githubStatusCacheTtlMs

\* Faulty variant of cacheTtlSeconds: one second too many.
cacheTtlSecondsPlusOne(githubStatusCacheTtlMs) ==
  githubStatusCacheTtlMs \div MsPerSecond + 1

\* Math.ceil(githubStatusCacheTtlMs / 1000)
cacheTtlSeconds(githubStatusCacheTtlMs) ==
  (githubStatusCacheTtlMs + MsPerSecond - 1) \div MsPerSecond

\* How the GET may fail: a non-2xx response (AxiosError), a network error
\* (AxiosError), the rxjs timeout (TimeoutError), or a rejection with a value
\* that is no Error.
FailureKinds == {"non2xx", "network", "timeout", "nonError"}

\* The value the promise rejects with.
Thrown(kind) ==
  [kind |-> kind, isError |-> kind # "nonError"]

NoError == [kind |-> "none", isError |-> FALSE]

\* err.message, err.stack and String(err) of a thrown value
ErrMessage(err) == <<"message", err.kind>>
ErrStack(err) == <<"stack", err.kind>>
String(err) == <<"String", err.kind>>

\* MockGitHubStatusProvider.getSummary: a fixed summary, no network
MockSummary == "mockSummary"

(***************************************************************************)
(* GitHubStatusIndicator.isHealthy                                         *)
(***************************************************************************)
NoText == <<>>
NoHealth == [status |-> "none", key |-> "none", message |-> NoText, error |-> NoText]

\* indicator.up()
IndicatorUp(key) ==
  [status |-> "up", key |-> key, message |-> NoText, error |-> NoText]

\* indicator.down({ message, error })
IndicatorDown(key, message, error) ==
  [status |-> "down", key |-> key, message |-> message, error |-> error]

\* Faulty variant of LoggedTrace: the message is logged, the stack is lost.
LoggedTraceMessageOnly(err) ==
  IF err.isError THEN ErrMessage(err) ELSE String(err)

\* The second argument of logger.error in the catch block
LoggedTrace(err) == IF err.isError THEN ErrStack(err) ELSE String(err)

\* Faulty variant of isHealthy: the down result does not carry the error.
isHealthyNoError(key, settled, err) ==
  IF settled = "resolved"
    THEN IndicatorUp(key)
    ELSE IndicatorDown(key, <<"GitHub status check failed">>, NoText)

\* What isHealthy resolves with, given how getSummary settled
isHealthy(key, settled, err) ==
  IF settled = "resolved"
    THEN IndicatorUp(key)
    ELSE IndicatorDown(key, <<"GitHub status check failed">>,
                       IF err.isError THEN ErrMessage(err) ELSE String(err))

(***************************************************************************)
(* State                                                                   *)
(***************************************************************************)
VARIABLES
  env,              \* process.env, fixed at process start
  zeroTtlPersists,  \* the store keeps an entry set with a TTL of 0
  phase,            \* "config", "providers", "inject", "running", "failed"
  startupError,     \* what aborted the startup, or "none"
  appConfig,        \* the validated configuration, once loaded
  providerToken,    \* what the GitHubStatusProvider token resolves to
  injected,         \* the provider held by the indicator and the load context
  now,              \* the clock, in milliseconds
  cache,            \* the entry under 'github-status:summary'
  calls,            \* the getSummary call of each caller
  httpGets,         \* upstream GETs issued so far
  boot,             \* the process from its first line to listen(), with
                    \* the whole environment (specification SpecConfig)
  ssr,              \* a request at the SSR fallback middleware (SpecSsr)
  console,          \* console.warn and console.error (SpecLogger)
  requests,         \* the requests inside wrapWithNestLogger (SpecLogger)
  otel,             \* global.__otel_sdk and the provider (SpecTelemetry)
  spans             \* the withSpan calls under way (SpecTelemetry)

\* The state of the serving model (specification Spec).
mainVars ==
  <<env, zeroTtlPersists, phase, startupError, appConfig, providerToken,
    injected, now, cache, calls, httpGets>>

\* The state of the other specifications, which Spec leaves alone.
aux == <<boot, ssr, console, requests, otel, spans>>

vars == <<mainVars, aux>>

\* Who calls getSummary through the token: the health indicator (GET
\* /api/healthz) and a route loader (the load context's githubStatusProvider).
Calls == {"health", "loader"}

NoConfig == [githubStatusProviderType |-> "none", githubStatusCacheTtlMs |-> 0]

\* The process model at rest.
BootIdle == [stage |-> "idle"]

\* No request at the SSR fallback middleware.
SsrIdle == [pc |-> "idle", path |-> <<>>, next |-> <<>>, handler |-> 0]

\* console.warn and console.error as they are before any request.
NativeConsole == [warn |-> <<"native">>, error |-> <<"native">>]

\* No SDK, and a provider whose hooks have not run.
OtelIdle == [stage |-> "idle"]

IdleCall ==
  [ pc |-> "idle",          \* idle, fetching, storing, resolved, rejected, reported
    lookup |-> "none",      \* what the lookup found: hit, absent, expired
    key |-> "none",         \* the key that was looked up
    data |-> Undefined,     \* response.data, then the value returned
    age |-> NoTime,         \* on return: time since the value was stored
    err |-> NoError,        \* the value the call rejected with
    health |-> NoHealth,    \* what isHealthy resolved with
    logged |-> NoText ]     \* the trace given to logger.error

Init ==
  /\ env \in [ GITHUB_STATUS_PROVIDER_TYPE : ProviderTypeEnv,
               GITHUB_STATUS_CACHE_TTL_MS : CacheTtlEnv ]
  /\ zeroTtlPersists \in
       (IF env.GITHUB_STATUS_CACHE_TTL_MS = <<0>> THEN BOOLEAN ELSE {FALSE})
  /\ phase = "config"
  /\ startupError = "none"
  /\ appConfig = NoConfig
  /\ providerToken = "unresolved"
  /\ injected = [indicator |-> "none", loadContext |-> "none"]
  /\ now = 0
  /\ cache = NoEntry
  /\ calls = [c \in Calls |-> IdleCall]
  /\ httpGets = 0
  /\ boot = BootIdle
  /\ ssr = SsrIdle
  /\ console = NativeConsole
  /\ requests = <<>>
  /\ otel = OtelIdle
  /\ spans = <<>>

(***************************************************************************)
(* Startup: NestFactory.create(AppModule)                                  *)
(***************************************************************************)
\* ConfigModule.forRoot({ load: [appConfig] }): the appConfig factory runs
\* validateConfigSlice; a throw aborts the startup.
LoadConfig ==
  /\ phase = "config"
  /\ LET r == validateConfigSlice(env)
     IN  IF r.threw
           THEN /\ phase' = "failed"
                /\ startupError' = "ConfigInvalid"
                /\ appConfig' = appConfig
           ELSE /\ phase' = "providers"
                /\ startupError' = startupError
                /\ appConfig' = r.instance
  /\ UNCHANGED aux
  /\ UNCHANGED <<env, zeroTtlPersists, providerToken, injected, now, cache,
                 calls, httpGets>>

\* The GitHubStatusProvider token is resolved by the factory, which reads
\* configService.getOrThrow('appConfig').
ResolveProvider ==
  /\ phase = "providers"
  /\ LET p == GitHubStatusProviderFactory(appConfig.githubStatusProviderType)
     IN  IF p = "throw"
           THEN /\ phase' = "failed"
                /\ startupError' = "UnknownProviderKind"
                /\ providerToken' = providerToken
           ELSE /\ phase' = "inject"
                /\ startupError' = startupError
                /\ providerToken' = p
  /\ UNCHANGED aux
  /\ UNCHANGED <<env, zeroTtlPersists, appConfig, injected, now, cache, calls,
                 httpGets>>

\* GitHubStatusIndicator and LoadContextProvider are constructed with
\* @Inject(GitHubStatusProvider); the server then serves requests.
InjectProvider ==
  /\ phase = "inject"
  /\ injected' = [indicator |-> providerToken, loadContext |-> providerToken]
  /\ phase' = "running"
  /\ UNCHANGED aux
  /\ UNCHANGED <<env, zeroTtlPersists, startupError, appConfig, providerToken,
                 now, cache, calls, httpGets>>

(***************************************************************************)
(* Serving                                                                 *)
(***************************************************************************)
\* The provider a caller holds.
ProviderOf(c) ==
  IF c = "health" THEN injected.indicator ELSE injected.loadContext

Tick ==
  /\ phase = "running"
  /\ now + TickMs <= MaxNow
  /\ now' = now + TickMs
  /\ UNCHANGED aux
  /\ UNCHANGED <<env, zeroTtlPersists, phase, startupError, appConfig,
                 providerToken, injected, cache, calls, httpGets>>

\* MockGitHubStatusProvider.getSummary()
MockGetSummary(c) ==
  /\ phase = "running"
  /\ ProviderOf(c) = "MockGitHubStatusProvider"
  /\ calls[c].pc = "idle"
  /\ calls' = [calls EXCEPT ![c] =
       [IdleCall EXCEPT !.pc = "resolved", !.data = MockSummary]]
  /\ UNCHANGED aux
  /\ UNCHANGED <<env, zeroTtlPersists, phase, startupError, appConfig,
                 providerToken, injected, now, cache, httpGets>>

\* DefaultGitHubStatusProvider.getSummary(), up to the GET: the cache lookup,
\* then either the return of the cached summary or the request.
getSummary(c) ==
  /\ phase = "running"
  /\ ProviderOf(c) = "DefaultGitHubStatusProvider"
  /\ calls[c].pc = "idle"
  /\ LET cachedSummary == CacheGet(cache, "github-status:summary", zeroTtlPersists, now)
     IN  IF Truthy(cachedSummary)
           THEN /\ calls' = [calls EXCEPT ![c] =
                     [IdleCall EXCEPT !.pc = "resolved", !.lookup = "hit",
                                      !.key = "github-status:summary",
                                      !.data = cachedSummary,
                                      !.age = now - cache.storedAt]]
                /\ httpGets' = httpGets
           ELSE /\ httpGets < MaxGets
                /\ calls' = [calls EXCEPT ![c] =
                     [IdleCall EXCEPT !.pc = "fetching",
                        !.key = "github-status:summary",
                        !.lookup = IF cache = NoEntry THEN "absent"
                                                      ELSE "expired"]]
                /\ httpGets' = httpGets + 1
  /\ cache' = CacheAfterGet(cache, zeroTtlPersists, now)
  /\ UNCHANGED aux
  /\ UNCHANGED <<env, zeroTtlPersists, phase, startupError, appConfig,
                 providerToken, injected, now>>

\* The GET succeeds: firstValueFrom resolves with the response.
HttpSuccess(c) ==
  /\ calls[c].pc = "fetching"
  /\ \E body \in Bodies :
       calls' = [calls EXCEPT ![c].pc = "storing", ![c].data = body]
  /\ UNCHANGED aux
  /\ UNCHANGED <<env, zeroTtlPersists, phase, startupError, appConfig,
                 providerToken, injected, now, cache, httpGets>>

\* Faulty variant of HttpFailure: the failure is stored as if it were a body.
HttpFailureStores(c) ==
  /\ calls[c].pc = "fetching"
  /\ \E kind \in FailureKinds :
       /\ calls' = [calls EXCEPT ![c].pc = "rejected", ![c].err = Thrown(kind)]
       /\ cache' = CacheSet("github-status:summary", kind,
                            cacheTtlSeconds(appConfig.githubStatusCacheTtlMs),
                            now)
  /\ UNCHANGED aux
  /\ UNCHANGED <<env, zeroTtlPersists, phase, startupError, appConfig,
                 providerToken, injected, now, httpGets>>

\* Faulty variant of HttpFailure: the GET is issued again within the call.
HttpFailureRetries(c) ==
  /\ calls[c].pc = "fetching"
  /\ IF httpGets < MaxGets
       THEN /\ httpGets' = httpGets + 1
            /\ calls' = calls
       ELSE /\ httpGets' = httpGets
            /\ \E kind \in FailureKinds :
                 calls' = [calls EXCEPT ![c].pc = "rejected",
                                        ![c].err = Thrown(kind)]
  /\ UNCHANGED aux
  /\ UNCHANGED <<env, zeroTtlPersists, phase, startupError, appConfig,
                 providerToken, injected, now, cache>>

\* The GET fails: firstValueFrom rejects, and so does getSummary; the lines
\* after the await are not run.
HttpFailure(c) ==
  /\ calls[c].pc = "fetching"
  /\ \E kind \in FailureKinds :
       calls' = [calls EXCEPT ![c].pc = "rejected", ![c].err = Thrown(kind)]
  /\ UNCHANGED aux
  /\ UNCHANGED <<env, zeroTtlPersists, phase, startupError, appConfig,
                 providerToken, injected, now, cache, httpGets>>

\* Faulty variant of StoreAndReturn: the body is stored under another key.
StoreAndReturnOtherKey(c) ==
  /\ calls[c].pc = "storing"
  /\ cache' = CacheSet("github-status", calls[c].data,
                       cacheTtlSeconds(appConfig.githubStatusCacheTtlMs),
                       now)
  /\ calls' = [calls EXCEPT ![c].pc = "resolved", ![c].age = 0]
  /\ UNCHANGED aux
  /\ UNCHANGED <<env, zeroTtlPersists, phase, startupError, appConfig,
                 providerToken, injected, now, httpGets>>

\* Faulty variant of StoreAndReturn: an entry already there is kept.
StoreAndReturnKeepsFirst(c) ==
  /\ calls[c].pc = "storing"
  /\ cache' = IF cache # NoEntry THEN cache
              ELSE CacheSet("github-status:summary", calls[c].data,
                            cacheTtlSeconds(appConfig.githubStatusCacheTtlMs),
                            now)
  /\ calls' = [calls EXCEPT ![c].pc = "resolved", ![c].age = 0]
  /\ UNCHANGED aux
  /\ UNCHANGED <<env, zeroTtlPersists, phase, startupError, appConfig,
                 providerToken, injected, now, httpGets>>

\* cacheManager.set(key, response.data, cacheTtlSeconds), then return
\* response.data.
StoreAndReturn(c) ==
  /\ calls[c].pc = "storing"
  /\ cache' = CacheSet("github-status:summary", calls[c].data,
                       cacheTtlSeconds(appConfig.githubStatusCacheTtlMs),
                       now)
  /\ calls' = [calls EXCEPT ![c].pc = "resolved", ![c].age = 0]
  /\ UNCHANGED aux
  /\ UNCHANGED <<env, zeroTtlPersists, phase, startupError, appConfig,
                 providerToken, injected, now, httpGets>>

\* GitHubStatusIndicator.isHealthy('github') returns once getSummary settled.
HealthCheckReturn ==
  /\ calls["health"].pc \in {"resolved", "rejected"}
  /\ calls' = [calls EXCEPT
       !["health"].pc = "reported",
       !["health"].health =
          isHealthy("github", calls["health"].pc, calls["health"].err),
       !["health"].logged =
          IF calls["health"].pc = "rejected"
            THEN LoggedTrace(calls["health"].err) ELSE NoText]
  /\ UNCHANGED aux
  /\ UNCHANGED <<env, zeroTtlPersists, phase, startupError, appConfig,
                 providerToken, injected, now, cache, httpGets>>

\* The request is over; the caller may call again.
Finish(c) ==
  /\ \/ c = "health" /\ calls[c].pc = "reported"
     \/ c = "loader" /\ calls[c].pc \in {"resolved", "rejected"}
  /\ calls' = [calls EXCEPT ![c] = IdleCall]
  /\ UNCHANGED aux
  /\ UNCHANGED <<env, zeroTtlPersists, phase, startupError, appConfig,
                 providerToken, injected, now, cache, httpGets>>

Next ==
  \/ LoadConfig
  \/ ResolveProvider
  \/ InjectProvider
  \/ Tick
  \/ \E c \in Calls : MockGetSummary(c)
  \/ \E c \in Calls : getSummary(c)
  \/ \E c \in Calls : HttpSuccess(c)
  \/ \E c \in Calls : HttpFailure(c)
  \/ \E c \in Calls : StoreAndReturn(c)
  \/ HealthCheckReturn
  \/ \E c \in Calls : Finish(c)

Spec == Init /\ [][Next]_vars

(***************************************************************************)
(* Properties                                                              *)
(***************************************************************************)
\* The configured TTL.
TtlMs == appConfig.githubStatusCacheTtlMs

\* The least whole number of seconds that is no less than ms, in
\* milliseconds (written without the code's own rounding).
WholeSecondsMs(ms) ==
  CHOOSE m \in {k * 1000 : k \in 0..(ms \div 1000 + 1)} :
    m >= ms /\ m - ms < 1000

\* C1: a getSummary() call that starts less than cacheTtlMs after the body of
\* an earlier call's fetch was stored (hence less than cacheTtlMs after that
\* fetch) finds the entry and returns it, and issues no upstream GET: two
\* calls in a row within the TTL make one GET in total.
C1_SecondCallIsCacheHit ==
  [][\A c \in Calls :
       (/\ getSummary(c)
        /\ cache # NoEntry
        /\ now - cache.storedAt < TtlMs)
       => /\ calls'[c].pc = "resolved"
          /\ calls'[c].lookup = "hit"
          /\ calls'[c].data = cache.value
          /\ httpGets' = httpGets
          /\ cache' = cache]_vars

\* Two calls, the second one later than the first but within the TTL: the
\* first fetched, the second returned the same body from the cache, one GET.
C1_Witness ==
  \E c, d \in Calls :
    /\ c # d
    /\ calls[c].pc \in {"resolved", "reported"} /\ calls[c].lookup = "absent"
    /\ calls[d].pc \in {"resolved", "reported"} /\ calls[d].lookup = "hit"
    /\ calls[d].age > 0 /\ calls[d].age < TtlMs
    /\ calls[d].data = calls[c].data
    /\ httpGets = 1

\* C2 as stated, for cacheTtlMs >= 1: a call that starts more than cacheTtlMs
\* after the entry was stored finds it expired and issues a new GET.
C2_ExpiresAfterTtlMs ==
  [][\A c \in Calls :
       (/\ getSummary(c)
        /\ cache # NoEntry
        /\ TtlMs >= 1
        /\ now - cache.storedAt > TtlMs)
       => /\ calls'[c].pc = "fetching"
          /\ httpGets' = httpGets + 1]_vars

\* C2: with cacheTtlMs >= 1, a call that starts more than
\* ceil(cacheTtlMs / 1000) whole seconds after the entry was stored finds it
\* expired and issues a new GET.
C2_ExpiresAfterWholeSeconds ==
  [][\A c \in Calls :
       (/\ getSummary(c)
        /\ cache # NoEntry
        /\ TtlMs >= 1
        /\ now - cache.storedAt > WholeSecondsMs(TtlMs))
       => /\ calls'[c].pc = "fetching"
          /\ calls'[c].lookup = "expired"
          /\ httpGets' = httpGets + 1
          /\ cache' = NoEntry]_vars

\* A call found the entry of an earlier fetch expired and fetches again.
C2_Witness ==
  \E c \in Calls :
    /\ calls[c].pc = "fetching"
    /\ calls[c].lookup = "expired"
    /\ TtlMs >= 1
    /\ httpGets = 2

\* C3 as stated, for cacheTtlMs >= 1: a value returned by getSummary() is
\* at most cacheTtlMs old on return.  (The age is counted from the store,
\* which is no earlier than the fetch.)
C3_NeverOlderThanTtlMs ==
  \A c \in Calls :
    (/\ calls[c].pc \in {"resolved", "reported"}
     /\ ProviderOf(c) = "DefaultGitHubStatusProvider"
     /\ TtlMs >= 1)
    => calls[c].age <= TtlMs

\* C3: with cacheTtlMs >= 1, a value getSummary() returns from the cache was
\* stored at most ceil(cacheTtlMs / 1000) whole seconds before that call, and
\* it is the entry's value; a call that missed returns the body it fetched.
C3_NeverOlderThanWholeSeconds ==
  /\ [][\A c \in Calls :
          (getSummary(c) /\ calls'[c].pc = "resolved")
          => /\ cache # NoEntry
             /\ calls'[c].data = cache.value
             /\ TtlMs >= 1 => now - cache.storedAt <= WholeSecondsMs(TtlMs)]_vars
  /\ [][\A c \in Calls :
          (calls[c].pc = "storing" /\ calls'[c].pc # "storing")
          => /\ calls'[c].pc = "resolved"
             /\ calls'[c].data = calls[c].data]_vars

\* A call returned a cached value that was stored more than cacheTtlMs ago.
C3_Witness ==
  \E c \in Calls :
    /\ calls[c].pc = "resolved"
    /\ calls[c].lookup = "hit"
    /\ TtlMs >= 1
    /\ calls[c].age > TtlMs

\* C4: when the GET fails, getSummary() rejects with that failure and the
\* cache is as it was: the failing call writes no entry, and an entry is only
\* ever written with the body of a call whose GET succeeded.
C4_FailureLeavesCache ==
  /\ [][\A c \in Calls :
          (calls[c].pc = "fetching" /\ calls'[c].pc \notin {"fetching", "storing"})
          => /\ calls'[c].pc = "rejected"
             /\ calls'[c].err.kind \in FailureKinds
             /\ calls'[c].data = Undefined
             /\ cache' = cache]_vars
  /\ [][(cache' # cache /\ cache' # NoEntry)
          => \E d \in Calls :
               /\ calls[d].pc = "storing"
               /\ calls'[d].pc = "resolved"
               /\ cache'.value = calls[d].data]_vars
  /\ [][\A c \in Calls :
          calls[c].pc = "rejected"
          => calls'[c].pc \in {"rejected", "reported", "idle"}]_vars

\* A call was rejected by a timeout while the other call's entry was in the
\* cache, untouched.
C4_Witness ==
  \E c, d \in Calls :
    /\ c # d
    /\ calls[c].pc = "rejected"
    /\ calls[c].err.kind = "timeout"
    /\ calls[d].pc = "resolved" /\ calls[d].lookup = "absent"
    /\ cache # NoEntry
    /\ cache.value = calls[d].data

\* C5: a call that reads the cache as missing issues its own GET whatever
\* the other calls are doing; each such call resolves with the body of its
\* own response; each store replaces the entry with the storing call's body,
\* so the entry is that of the last store, and a hit returns it.
C5_LastWriterWins ==
  /\ [][\A c \in Calls :
          (getSummary(c) /\ ~CacheLive(cache, zeroTtlPersists, now))
          => /\ calls'[c].pc = "fetching"
             /\ httpGets' = httpGets + 1]_vars
  /\ [][\A c \in Calls :
          StoreAndReturn(c)
          => /\ calls'[c].pc = "resolved"
             /\ calls'[c].data = calls[c].data
             /\ cache'.value = calls[c].data
             /\ cache'.storedAt = now]_vars
  /\ [][\A c \in Calls :
          (calls[c].pc = "storing" /\ calls'[c].pc # "storing")
          => StoreAndReturn(c)]_vars
  /\ [][(cache' # cache /\ cache' # NoEntry)
          => \E c \in Calls : StoreAndReturn(c)]_vars
  /\ [][\A c \in Calls :
          (getSummary(c) /\ calls'[c].lookup = "hit")
          => calls'[c].data = cache.value]_vars

\* Both calls missed before either had stored, each made its own GET and
\* resolved with its own body, and the cache holds one of the two bodies.
C5_Witness ==
  /\ now = 0
  /\ TtlMs >= 1000
  /\ httpGets = 2
  /\ \A c \in Calls :
       calls[c].pc = "resolved" /\ calls[c].lookup = "absent"
  /\ calls["health"].data = "summaryA"
  /\ calls["loader"].data = "summaryB"
  /\ cache.value = "summaryA"

\* C6: isHealthy('github') reports "up" when the provider's getSummary()
\* resolved, and "down" when it rejected, the down result carrying the
\* failure's text: the error's message, or the string form of a value that is
\* no Error.
C6_HealthUpDown ==
  LET h == calls["health"]
  IN  h.pc = "reported"
      => /\ h.health.key = "github"
         /\ h.err = NoError
            => /\ h.data # Undefined
               /\ h.health.status = "up"
         /\ h.err # NoError
            => /\ h.health.status = "down"
               /\ h.health.message = <<"GitHub status check failed">>
               /\ h.err.isError => h.health.error = <<"message", h.err.kind>>
               /\ ~h.err.isError => h.health.error = <<"String", h.err.kind>>

\* The upstream answered with a non-2xx status and the health check is down
\* with the error's message.
C6_Witness ==
  /\ calls["health"].pc = "reported"
  /\ calls["health"].err.kind = "non2xx"
  /\ calls["health"].health.status = "down"
  /\ calls["health"].health.error = <<"message", "non2xx">>

\* C7: however getSummary() settles, isHealthy resolves with an up or a down
\* result and never rejects; a rejection of getSummary() is logged with the
\* error's stack, or with the string form of a value that is no Error, and
\* nothing is logged when getSummary() resolved.
C7_HealthNeverRejects ==
  /\ [](LET h == calls["health"]
        IN  h.pc = "reported"
            => /\ h.health.status \in {"up", "down"}
               /\ h.health.status = "down" <=> h.err # NoError
               /\ h.err = NoError => h.logged = NoText
               /\ (h.err # NoError /\ h.err.isError)
                  => h.logged = <<"stack", h.err.kind>>
               /\ (h.err # NoError /\ ~h.err.isError)
                  => h.logged = <<"String", h.err.kind>>)
  /\ [][(/\ calls["health"].pc \in {"resolved", "rejected"}
         /\ calls'["health"].pc # calls["health"].pc)
        => /\ calls'["health"].pc = "reported"
           /\ calls'["health"].health.status \in {"up", "down"}]_vars

\* getSummary() rejected with a value that is no Error; the health check is
\* down and the value's string form was logged.
C7_Witness ==
  /\ calls["health"].pc = "reported"
  /\ calls["health"].err.kind = "nonError"
  /\ calls["health"].health.status = "down"
  /\ calls["health"].logged = <<"String", "nonError">>

\* The provider kind set in the environment is none of the recognised ones.
UnknownKindConfigured ==
  /\ env.GITHUB_STATUS_PROVIDER_TYPE # Absent
  /\ env.GITHUB_STATUS_PROVIDER_TYPE[1] \notin {"mock", "default"}

\* Nothing of the provider is in use: the token is unresolved, no consumer
\* holds a provider and no getSummary() call was made.
NoProviderInUse ==
  /\ providerToken = "unresolved"
  /\ injected = [indicator |-> "none", loadContext |-> "none"]
  /\ \A c \in Calls : calls[c] = IdleCall
  /\ httpGets = 0
  /\ cache = NoEntry

\* C8 as stated: with an unrecognised kind configured, the fatal error of the
\* startup is the one raised when the provider is constructed (the factory's
\* Unknown githubStatusProviderType).
C8_FactoryRaisesUnknownKind ==
  (UnknownKindConfigured /\ phase = "failed")
  => startupError = "UnknownProviderKind"

\* C8: with an unrecognised kind configured, the startup fails, and it fails
\* in configuration validation, before the provider factory runs; no
\* getSummary() call can occur and no provider is handed to the health
\* indicator or the load context.
C8_UnknownKindFailsValidation ==
  UnknownKindConfigured
  => /\ phase \in {"config", "failed"}
     /\ phase = "failed" => startupError = "ConfigInvalid"
     /\ NoProviderInUse

\* The startup was aborted for the kind 'bogus'.
C8_Witness ==
  /\ env.GITHUB_STATUS_PROVIDER_TYPE = <<"bogus">>
  /\ env.GITHUB_STATUS_CACHE_TTL_MS = Absent
  /\ phase = "failed"
  /\ startupError = "ConfigInvalid"

\* The TTL set in the environment passes validation.
TtlConfiguredValid ==
  \/ env.GITHUB_STATUS_CACHE_TTL_MS = Absent
  \/ env.GITHUB_STATUS_CACHE_TTL_MS[1] >= 0

\* C9 as stated: with the kind 'real' the startup succeeds and the token
\* resolves to the provider that makes the network calls.
C9_RealSelectsNetworkProvider ==
  (/\ env.GITHUB_STATUS_PROVIDER_TYPE = <<"real">>
   /\ TtlConfiguredValid
   /\ phase \in {"failed", "inject", "running"})
  => /\ phase # "failed"
     /\ providerToken = "DefaultGitHubStatusProvider"

\* C9: the kind 'default' selects DefaultGitHubStatusProvider, the provider
\* that makes the network calls, and the kind 'mock' (also when the variable
\* is absent) selects the mock; with 'default' the startup succeeds and both
\* consumers hold the network provider.  'real' is no kind: it never gets
\* past validation.
C9_DefaultSelectsNetworkProvider ==
  LET kind == env.GITHUB_STATUS_PROVIDER_TYPE
  IN  /\ (kind = <<"default">> /\ TtlConfiguredValid)
         => /\ phase # "failed"
            /\ phase \in {"inject", "running"}
               => providerToken = "DefaultGitHubStatusProvider"
            /\ phase = "running"
               => injected = [indicator |-> "DefaultGitHubStatusProvider",
                              loadContext |-> "DefaultGitHubStatusProvider"]
      /\ (kind \in {<<"mock">>, Absent} /\ TtlConfiguredValid)
         => /\ phase # "failed"
            /\ phase \in {"inject", "running"}
               => providerToken = "MockGitHubStatusProvider"
            /\ phase = "running"
               => injected = [indicator |-> "MockGitHubStatusProvider",
                              loadContext |-> "MockGitHubStatusProvider"]
      /\ kind = <<"real">> => phase \in {"config", "failed"}

\* The server runs with the kind 'default' and a call is fetching upstream.
C9_Witness ==
  /\ env.GITHUB_STATUS_PROVIDER_TYPE = <<"default">>
  /\ phase = "running"
  /\ injected.indicator = "DefaultGitHubStatusProvider"
  /\ injected.loadContext = "DefaultGitHubStatusProvider"
  /\ calls["loader"].pc = "fetching"

\* C10: with the kind 'mock' (set, or absent) no getSummary() call through
\* the token issues an upstream GET or touches the cache: the default
\* provider's getSummary is never entered, and every call resolves with the
\* mock's one summary.
C10_MockNeverFetches ==
  env.GITHUB_STATUS_PROVIDER_TYPE \in {<<"mock">>, Absent}
  => /\ httpGets = 0
     /\ cache = NoEntry
     /\ \A c \in Calls :
          /\ calls[c].pc \in {"idle", "resolved", "reported"}
          /\ calls[c].lookup = "none"
          /\ calls[c].pc # "idle" => calls[c].data = "mockSummary"
          /\ calls[c].pc = "reported" => calls[c].health.status = "up"

\* With the kind 'mock' the loader got the mock's summary and the health
\* check reported up, later on, without any GET.
C10_Witness ==
  /\ env.GITHUB_STATUS_PROVIDER_TYPE = <<"mock">>
  /\ now > 0
  /\ calls["loader"].pc = "resolved"
  /\ calls["loader"].data = "mockSummary"
  /\ calls["health"].pc = "reported"
  /\ calls["health"].health.status = "up"
  /\ httpGets = 0

\* C14: an invocation of getSummary() issues at most one upstream GET.  A GET
\* is issued only by the step in which an idle caller invokes getSummary(),
\* and that step issues exactly one; a call that is under way never returns
\* to fetching, and a fetch that fails rejects the call with the thrown
\* value and issues nothing more.
C14_AtMostOneGetPerInvocation ==
  [][/\ httpGets' # httpGets
          => /\ httpGets' = httpGets + 1
             /\ \E c \in Calls :
                  calls[c].pc = "idle" /\ calls'[c].pc = "fetching"
     /\ \A c \in Calls :
          /\ (calls[c].pc # "idle" /\ calls'[c].pc = "fetching")
               => calls[c].pc = "fetching"
          /\ (calls[c].pc = "fetching" /\ calls'[c].pc \notin {"fetching", "storing"})
               => /\ calls'[c].pc = "rejected"
                  /\ calls'[c].err # NoError
                  /\ httpGets' = httpGets]_vars

\* A fetch has failed and its call is rejected, after one GET in all.
C14_Witness ==
  /\ httpGets = 1
  /\ \E c \in Calls : calls[c].pc = "rejected" /\ calls[c].lookup = "absent"

\* C19: after a miss and a successful GET, the step that ends the call stores
\* the response body under the key that was looked up
\* ('github-status:summary'), with a TTL of ceil(cacheTtlMs / 1000) seconds,
\* and resolves the call with that same body; a fetching call never resolves
\* without passing through that store.
C19_StoresBodyThenReturnsIt ==
  [][\A c \in Calls :
       /\ (calls[c].pc = "storing" /\ calls'[c].pc # "storing")
            => /\ calls[c].key = "github-status:summary"
               /\ cache'.key = calls[c].key
               /\ cache'.value = calls[c].data
               /\ cache'.ttl * 1000 = WholeSecondsMs(TtlMs)
               /\ cache'.storedAt = now
               /\ calls'[c].pc = "resolved"
               /\ calls'[c].data = calls[c].data
       /\ (calls[c].pc = "fetching" /\ calls'[c].pc # "fetching")
            => /\ calls'[c].pc \in {"storing", "rejected"}
               /\ cache' = cache
               /\ calls'[c].pc = "storing" => calls'[c].data \in Bodies]_vars

\* A call that missed has stored the fetched body and returned it.
C19_Witness ==
  \E c \in Calls :
    /\ calls[c].pc = "resolved"
    /\ calls[c].lookup \in {"absent", "expired"}
    /\ cache.key = "github-status:summary"
    /\ cache.value = calls[c].data
    /\ calls[c].data \in Bodies
    /\ TtlMs = 1
    /\ cache.ttl = 1

(***************************************************************************)
(* SpecConfig: the whole environment, the three configuration slices and   *)
(* the process from the first line of app.bootstrap.ts to listen().        *)
(* An environment variable holds a string; a URL is told by the two        *)
(* things @IsUrl looks at.                                                 *)
(***************************************************************************)
\* readonly githubStatusTimeoutMs: number = 2000
DefaultTimeoutMs == 2000
\* readonly port: number = 3000
DefaultPort == 3000
\* @Max(65535) on port
MaxPort == 65535
\* readonly otelExportIntervalMs: number = 60_000
DefaultExportIntervalMs == 60000

\* JavaScript numbers, as far as @IsInt, @Min and @Max tell them apart: an
\* integer, a number strictly between floor and floor + 1, or NaN.
JsInt(n) == <<"int", n>>
JsFraction(floor) == <<"fraction", floor>>
NaN == <<"NaN", 0>>

\* Faulty variant of Number: the empty string is taken for NaN.
NumberEmptyIsNaN(value) ==
  CASE value = "0" -> JsInt(0)
    [] value = "1" -> JsInt(1)
    [] value = "1000" -> JsInt(1000)
    [] value = "8080" -> JsInt(8080)
    [] value = "70000" -> JsInt(70000)
    [] value = "-1" -> JsInt(0 - 1)
    [] value = "1.5" -> JsFraction(1)
    [] OTHER -> NaN

\* Number(value) of a string: the empty string is 0, a decimal numeral its
\* value, anything else NaN.
Number(value) ==
  CASE value = "" -> JsInt(0)
    [] value = "0" -> JsInt(0)
    [] value = "1" -> JsInt(1)
    [] value = "1000" -> JsInt(1000)
    [] value = "8080" -> JsInt(8080)
    [] value = "70000" -> JsInt(70000)
    [] value = "-1" -> JsInt(0 - 1)
    [] value = "1.5" -> JsFraction(1)
    [] OTHER -> NaN

\* String(value).toLowerCase() of the values the environment holds
toLowerCase(value) ==
  CASE value = "TRUE" -> "true"
    [] value = "True" -> "true"
    [] OTHER -> value

\* toBoolean(): String(value).toLowerCase() === 'true'
toBoolean(value) == toLowerCase(value) = "true"

\* A URL as @IsUrl sees it.
Url(text, protocol, tld) == [text |-> text, protocol |-> protocol, tld |-> tld]

\* readonly githubStatusUrl: string = 'https://www.githubstatus.com/...'
DefaultStatusUrl ==
  Url("https://www.githubstatus.com/api/v2/summary.json", TRUE, TRUE)

\* readonly otelExporterOtlpEndpoint: string = 'http://localhost:4318'
DefaultOtlpEndpoint == Url("http://localhost:4318", TRUE, FALSE)

\* @IsInt
isInt(value) == value[1] = "int"

\* @Min(bound): value >= bound (false of NaN)
min(value, bound) == value[1] # "NaN" /\ value[2] >= bound

\* @Max(bound): value <= bound (false of NaN)
max(value, bound) ==
  \/ value[1] = "int" /\ value[2] <= bound
  \/ value[1] = "fraction" /\ value[2] < bound

\* Faulty variant of isURL: every value passes.
isURLAny(value, require_tld) == TRUE

\* @IsUrl({ require_tld, require_protocol: true })
isURL(value, require_tld) == value.protocol /\ (require_tld => value.tld)

\* The configuration classes.
Schemas == {"CoreConfig", "GitHubConfig", "TelemetryConfig"}

\* plainToInstance(schema, source, { exposeDefaultValues: true }): an absent
\* variable keeps the class's default and is not transformed; a variable
\* that is set goes through the property's @Transform.
plainToInstance(schema, source) ==
  CASE schema = "CoreConfig" ->
         [ nodeEnv |-> IF source.NODE_ENV = Absent
                         THEN "development" ELSE source.NODE_ENV[1],
           port |-> IF source.PORT = Absent
                      THEN JsInt(DefaultPort) ELSE Number(source.PORT[1]),
           debug |-> IF source.DEBUG = Absent
                       THEN FALSE ELSE toBoolean(source.DEBUG[1]) ]
    [] schema = "GitHubConfig" ->
         [ githubStatusUrl |->
             IF source.GITHUB_STATUS_URL = Absent
               THEN DefaultStatusUrl ELSE source.GITHUB_STATUS_URL[1],
           githubStatusCacheTtlMs |->
             IF source.GITHUB_STATUS_CACHE_TTL_MS = Absent
               THEN JsInt(DefaultCacheTtlMs)
               ELSE Number(source.GITHUB_STATUS_CACHE_TTL_MS[1]),
           githubStatusProviderType |->
             IF source.GITHUB_STATUS_PROVIDER_TYPE = Absent
               THEN "mock" ELSE source.GITHUB_STATUS_PROVIDER_TYPE[1],
           githubStatusTimeoutMs |->
             IF source.GITHUB_STATUS_TIMEOUT_MS = Absent
               THEN JsInt(DefaultTimeoutMs)
               ELSE Number(source.GITHUB_STATUS_TIMEOUT_MS[1]) ]
    [] schema = "TelemetryConfig" ->
         [ telemetryEnabled |->
             IF source.TELEMETRY_ENABLED = Absent
               THEN FALSE ELSE toBoolean(source.TELEMETRY_ENABLED[1]),
           otelExporterOtlpEndpoint |->
             IF source.OTEL_EXPORTER_OTLP_ENDPOINT = Absent
               THEN DefaultOtlpEndpoint
               ELSE source.OTEL_EXPORTER_OTLP_ENDPOINT[1],
           otelServiceName |->
             IF source.OTEL_SERVICE_NAME = Absent
               THEN "nestjs-rr7" ELSE source.OTEL_SERVICE_NAME[1],
           otelServiceVersion |->
             IF source.OTEL_SERVICE_VERSION = Absent
               THEN "0.0.0" ELSE source.OTEL_SERVICE_VERSION[1],
           otelExportIntervalMs |->
             IF source.OTEL_EXPORT_INTERVAL_MS = Absent
               THEN JsInt(DefaultExportIntervalMs)
               ELSE Number(source.OTEL_EXPORT_INTERVAL_MS[1]) ]

\* validateSync(instance): the properties that fail one of their constraints
validateSync(schema, instance) ==
  CASE schema = "CoreConfig" ->
         {p \in {"nodeEnv"} :
            instance.nodeEnv \notin {"development", "production", "test"}}
         \cup {p \in {"port"} :
                 ~(/\ isInt(instance.port)
                   /\ min(instance.port, 1)
                   /\ max(instance.port, MaxPort))}
         \cup {p \in {"debug"} : instance.debug \notin BOOLEAN}
    [] schema = "GitHubConfig" ->
         {p \in {"githubStatusUrl"} : ~isURL(instance.githubStatusUrl, TRUE)}
         \cup {p \in {"githubStatusCacheTtlMs"} :
                 ~(/\ isInt(instance.githubStatusCacheTtlMs)
                   /\ min(instance.githubStatusCacheTtlMs, 0))}
         \cup {p \in {"githubStatusProviderType"} :
                 instance.githubStatusProviderType
                   \notin GitHubStatusProviderTypes}
         \cup {p \in {"githubStatusTimeoutMs"} :
                 ~(/\ isInt(instance.githubStatusTimeoutMs)
                   /\ min(instance.githubStatusTimeoutMs, 0))}
    [] schema = "TelemetryConfig" ->
         {p \in {"telemetryEnabled"} : instance.telemetryEnabled \notin BOOLEAN}
         \cup {p \in {"otelExporterOtlpEndpoint"} :
                 ~isURL(instance.otelExporterOtlpEndpoint, FALSE)}
         \cup {p \in {"otelServiceName"} : instance.otelServiceName = ""}
         \cup {p \in {"otelServiceVersion"} : instance.otelServiceVersion = ""}
         \cup {p \in {"otelExportIntervalMs"} :
                 ~(/\ isInt(instance.otelExportIntervalMs)
                   /\ min(instance.otelExportIntervalMs, 1))}

\* What a call that threw returns.
NoInstance == [threw |-> TRUE]

\* Faulty variant of validateConfigSliceOf: the errors are not thrown.
validateConfigSliceOfNoThrow(schema, source) ==
  LET instance == plainToInstance(schema, source)
  IN  [threw |-> FALSE, errors |-> {}, instance |-> instance]

\* validateConfigSlice(schema, source): the validated instance, or a throw
\* (errors.length > 0) that returns nothing.
validateConfigSliceOf(schema, source) ==
  LET instance == plainToInstance(schema, source)
      errors == validateSync(schema, instance)
  IN  IF Cardinality(errors) > 0
        THEN [threw |-> TRUE, errors |-> errors, instance |-> NoInstance]
        ELSE [threw |-> FALSE, errors |-> {}, instance |-> instance]

\* The appConfig factory: the three slices are validated in turn and spread
\* into one object; the first throw leaves the factory.
appConfigFactory(source) ==
  LET core == validateConfigSliceOf("CoreConfig", source)
      github == validateConfigSliceOf("GitHubConfig", source)
      telemetry == validateConfigSliceOf("TelemetryConfig", source)
  IN  CASE core.threw -> [threw |-> TRUE, config |-> NoInstance]
        [] github.threw -> [threw |-> TRUE, config |-> NoInstance]
        [] telemetry.threw -> [threw |-> TRUE, config |-> NoInstance]
        [] OTHER ->
             [threw |-> FALSE,
              config |-> core.instance @@ github.instance @@ telemetry.instance]

\* process.env as it may be set when the process starts
ProcessEnv ==
  [ NODE_ENV : {Absent, <<"production">>, <<"staging">>},
    PORT : {Absent, <<"8080">>, <<"70000">>},
    DEBUG : {Absent, <<"yes">>},
    GITHUB_STATUS_URL :
      {Absent, <<Url("https://status.example.com/summary.json", TRUE, TRUE)>>,
       <<Url("status.example.com/summary.json", FALSE, TRUE)>>},
    GITHUB_STATUS_CACHE_TTL_MS :
      {Absent, <<"1000">>, <<"-1">>, <<"1.5">>, <<"soon">>, <<"">>},
    GITHUB_STATUS_PROVIDER_TYPE : {Absent, <<"default">>, <<"real">>},
    GITHUB_STATUS_TIMEOUT_MS : {Absent, <<"1">>, <<"-1">>, <<"1.5">>, <<"">>},
    TELEMETRY_ENABLED : {Absent, <<"TRUE">>},
    OTEL_EXPORTER_OTLP_ENDPOINT : {Absent},
    OTEL_SERVICE_NAME : {Absent, <<"">>},
    OTEL_SERVICE_VERSION : {Absent},
    OTEL_EXPORT_INTERVAL_MS : {Absent, <<"0">>} ]

\* The serving model at rest, for the specifications that do not move it.
MainIdle ==
  /\ env = [GITHUB_STATUS_PROVIDER_TYPE |-> Absent,
            GITHUB_STATUS_CACHE_TTL_MS |-> Absent]
  /\ zeroTtlPersists = FALSE
  /\ phase = "config"
  /\ startupError = "none"
  /\ appConfig = NoConfig
  /\ providerToken = "none"
  /\ injected = [c \in Calls |-> "none"]
  /\ now = 0
  /\ cache = NoEntry
  /\ calls = [c \in Calls |-> IdleCall]
  /\ httpGets = 0

\* The bootstrap model at rest.
ConfigIdle == boot = BootIdle

\* The request models at rest.
SsrAtRest == ssr = SsrIdle
LoggerAtRest == console = NativeConsole /\ requests = <<>>
TelemetryAtRest == otel = OtelIdle /\ spans = <<>>

InitConfig ==
  /\ MainIdle
  /\ SsrAtRest
  /\ LoggerAtRest
  /\ TelemetryAtRest
  /\ \E source \in ProcessEnv :
       boot = [stage |-> "start", env |-> source, error |-> "none",
               config |-> NoInstance, provider |-> "none",
               routes |-> "none", listening |-> <<>>]

\* app.bootstrap.ts line 4: TelemetryProvider.initFromEnv() validates the
\* telemetry slice before anything else is imported; a throw ends the process.
InitFromEnv ==
  /\ boot.stage = "start"
  /\ LET early == validateConfigSliceOf("TelemetryConfig", boot.env)
     IN  boot' = IF early.threw
                   THEN [boot EXCEPT !.stage = "failed",
                                     !.error = "ConfigInvalid"]
                   ELSE [boot EXCEPT !.stage = "bootstrap"]
  /\ UNCHANGED <<mainVars, ssr, console, requests, otel, spans>>

\* NestFactory.create(AppModule): ConfigModule runs the appConfig factory,
\* then the GitHub status provider token is resolved from the kind.
NestFactoryCreate ==
  /\ boot.stage = "bootstrap"
  /\ LET loaded == appConfigFactory(boot.env)
         token == GitHubStatusProviderFactory(
                    loaded.config.githubStatusProviderType)
     IN  boot' =
           CASE loaded.threw ->
                  [boot EXCEPT !.stage = "failed", !.error = "ConfigInvalid"]
             [] ~loaded.threw /\ token = "throw" ->
                  [boot EXCEPT !.stage = "failed",
                               !.error = "UnknownProviderKind"]
             [] OTHER ->
                  [boot EXCEPT !.stage = "created",
                               !.config = loaded.config,
                               !.provider = token]
  /\ UNCHANGED <<mainVars, ssr, console, requests, otel, spans>>

\* bootstrap(): production or development routes, by nodeEnv
RegisterRoutes ==
  /\ boot.stage = "created"
  /\ boot' = [boot EXCEPT !.stage = "routes",
                          !.routes = IF boot.config.nodeEnv = "production"
                                       THEN "production" ELSE "dev"]
  /\ UNCHANGED <<mainVars, ssr, console, requests, otel, spans>>

\* await nestApplication.init()
NestInit ==
  /\ boot.stage = "routes"
  /\ boot' = [boot EXCEPT !.stage = "initialized"]
  /\ UNCHANGED <<mainVars, ssr, console, requests, otel, spans>>

\* await nestApplication.listen(environment.port)
Listen ==
  /\ boot.stage = "initialized"
  /\ boot' = [boot EXCEPT !.stage = "listening",
                          !.listening = <<boot.config.port>>]
  /\ UNCHANGED <<mainVars, ssr, console, requests, otel, spans>>

NextConfig ==
  \/ InitFromEnv
  \/ NestFactoryCreate
  \/ RegisterRoutes
  \/ NestInit
  \/ Listen

SpecConfig == InitConfig /\ [][NextConfig]_vars

(***************************************************************************)
(* Properties of SpecConfig                                                *)
(***************************************************************************)
\* The stages a process reaches only with a configuration.
Configured == {"created", "routes", "initialized", "listening"}

\* The slices of which some value fails a constraint.
FailingSlices(source) ==
  {schema \in Schemas :
     validateSync(schema, plainToInstance(schema, source)) # {}}

\* C11: when a value of the core, GitHub or telemetry slice fails validation,
\* startup goes no further than the step that validates it: the process holds
\* no configuration object, registers no routes and never listens, and once
\* the failing slice was validated the process has failed with ConfigInvalid.
C11_InvalidConfigAbortsStartup ==
  FailingSlices(boot.env) # {}
    => /\ boot.stage \in {"start", "bootstrap", "failed"}
       /\ boot.stage = "failed" => boot.error = "ConfigInvalid"
       /\ "TelemetryConfig" \in FailingSlices(boot.env)
            => boot.stage # "bootstrap"
       /\ boot.config = NoInstance
       /\ boot.routes = "none"
       /\ boot.listening = <<>>

\* Startup was aborted by the appConfig factory: the telemetry slice passed
\* the early check and the core slice holds a port out of range.
C11_Witness ==
  /\ boot.stage = "failed"
  /\ boot.error = "ConfigInvalid"
  /\ FailingSlices(boot.env) = {"CoreConfig"}
  /\ boot.env.PORT = <<"70000">>

\* C12 as stated: with GITHUB_STATUS_URL absent, validation fails and the
\* process never holds a configuration.
C12_AbsentUrlFailsValidation ==
  boot.env.GITHUB_STATUS_URL = Absent => boot.stage \notin Configured

\* C12: GITHUB_STATUS_URL is optional.  When it is absent the validated
\* configuration holds the default https://www.githubstatus.com/api/v2/summary.json
\* and the URL is never among the failing properties; when it is set to a
\* value that is not an absolute URL (protocol and top-level domain), no
\* configuration is ever held (ConfigInvalid).
C12_AbsentUrlTakesDefault ==
  /\ boot.env.GITHUB_STATUS_URL = Absent
       => /\ "githubStatusUrl" \notin
               validateSync("GitHubConfig",
                            plainToInstance("GitHubConfig", boot.env))
          /\ boot.stage \in Configured
               => boot.config.githubStatusUrl.text =
                    "https://www.githubstatus.com/api/v2/summary.json"
  /\ (/\ boot.env.GITHUB_STATUS_URL # Absent
      /\ ~(/\ boot.env.GITHUB_STATUS_URL[1].protocol
           /\ boot.env.GITHUB_STATUS_URL[1].tld))
       => /\ boot.stage \notin Configured
          /\ boot.stage = "failed" => boot.error = "ConfigInvalid"

\* The server listens with no GITHUB_STATUS_URL in its environment.
C12_Witness ==
  /\ boot.stage = "listening"
  /\ boot.env.GITHUB_STATUS_URL = Absent
  /\ boot.config.githubStatusUrl = DefaultStatusUrl

\* The strings that are numerals of a non-negative integer.
NonNegativeIntegerNumerals == {"0", "1", "1000", "8080", "70000"}

\* C13: a configuration that validation returned holds a TTL and a timeout
\* that are integers >= 0, equal to 60000 and 2000 when their variables are
\* absent, and the kind mock when its variable is absent; a TTL or timeout
\* that was supplied and is negative or not an integer is never accepted.
C13_DefaultsAndIntegerBounds ==
  boot.stage \in Configured
    => /\ boot.config.githubStatusCacheTtlMs[1] = "int"
       /\ boot.config.githubStatusCacheTtlMs[2] >= 0
       /\ boot.config.githubStatusTimeoutMs[1] = "int"
       /\ boot.config.githubStatusTimeoutMs[2] >= 0
       /\ boot.env.GITHUB_STATUS_CACHE_TTL_MS = Absent
            => boot.config.githubStatusCacheTtlMs = <<"int", 60000>>
       /\ boot.env.GITHUB_STATUS_TIMEOUT_MS = Absent
            => boot.config.githubStatusTimeoutMs = <<"int", 2000>>
       /\ boot.env.GITHUB_STATUS_PROVIDER_TYPE = Absent
            => boot.config.githubStatusProviderType = "mock"
       /\ boot.env.GITHUB_STATUS_CACHE_TTL_MS # Absent
            => boot.env.GITHUB_STATUS_CACHE_TTL_MS[1]
                 \in NonNegativeIntegerNumerals
       /\ boot.env.GITHUB_STATUS_TIMEOUT_MS # Absent
            => boot.env.GITHUB_STATUS_TIMEOUT_MS[1]
                 \in NonNegativeIntegerNumerals

(***************************************************************************)
(* SpecSsr: the SSR fallback middleware (registerSsrFallback).  A path is  *)
(* a sequence of characters that starts with "/", as req.path does.        *)
(***************************************************************************)
MaxPathLen == 5

PathChars == {"/", "a", "p", "i", "x"}

\* req.path as it may be
Paths ==
  {path \in UNION {[1..n -> PathChars] : n \in 1..MaxPathLen} : path[1] = "/"}

\* Faulty variant of startsWith: the whole string must be the prefix.
startsWithWhole(string, prefix) == string = prefix

\* String.prototype.startsWith
startsWith(string, prefix) ==
  /\ Len(string) >= Len(prefix)
  /\ SubSeq(string, 1, Len(prefix)) = prefix

InitSsr ==
  /\ MainIdle
  /\ ConfigIdle
  /\ LoggerAtRest
  /\ TelemetryAtRest
  /\ ssr = SsrIdle

\* server.use((req, res, next) => ...): an /api path goes on with next(),
\* any other path is given to the handler.
SsrFallback ==
  /\ ssr.pc = "idle"
  /\ \E path \in Paths :
       ssr' = IF startsWith(path, <<"/", "a", "p", "i">>)
                THEN [pc |-> "passed", path |-> path,
                      next |-> <<"next()">>, handler |-> 0]
                ELSE [pc |-> "delegated", path |-> path,
                      next |-> <<>>, handler |-> 1]
  /\ UNCHANGED <<mainVars, boot, console, requests, otel, spans>>

\* The handler (React Router behind wrapWithNestLogger) sends the response.
HandlerResponds ==
  /\ ssr.pc = "delegated"
  /\ ssr' = [ssr EXCEPT !.pc = "responded"]
  /\ UNCHANGED <<mainVars, boot, console, requests, otel, spans>>

\* The handler fails: its catch block calls next(error).
HandlerFails ==
  /\ ssr.pc = "delegated"
  /\ ssr' = [ssr EXCEPT !.pc = "failed",
                        !.next = Append(ssr.next, "next(error)")]
  /\ UNCHANGED <<mainVars, boot, console, requests, otel, spans>>

\* The request is over; the next one arrives.
NextRequest ==
  /\ ssr.pc \in {"passed", "responded", "failed"}
  /\ ssr' = SsrIdle
  /\ UNCHANGED <<mainVars, boot, console, requests, otel, spans>>

NextSsr ==
  \/ SsrFallback
  \/ HandlerResponds
  \/ HandlerFails
  \/ NextRequest

SpecSsr == InitSsr /\ [][NextSsr]_vars

\* C15: the middleware partitions requests by path.  A request whose path
\* starts with /api is passed on with next() and the handler is never called
\* for it; any other request is given to the handler once, and the only
\* next the request ever sees is the handler's next(error).
C15_FallbackPartitionsByPath ==
  ssr.pc # "idle"
    => IF /\ Len(ssr.path) >= 4
          /\ ssr.path[1] = "/" /\ ssr.path[2] = "a"
          /\ ssr.path[3] = "p" /\ ssr.path[4] = "i"
         THEN ssr.pc = "passed" /\ ssr.next = <<"next()">> /\ ssr.handler = 0
         ELSE /\ ssr.pc \in {"delegated", "responded", "failed"}
              /\ ssr.handler = 1
              /\ \A i \in 1..Len(ssr.next) : ssr.next[i] # "next()"

\* A request below /api was passed on.
C15_Witness ==
  /\ ssr.pc = "passed"
  /\ ssr.path = <<"/", "a", "p", "i", "/">>
  /\ ssr.handler = 0

(***************************************************************************)
(* SpecTelemetry: the life of global.__otel_sdk (created by initFromEnv at *)
(* the first line of app.bootstrap.ts, started and shut down by the        *)
(* provider's module hooks) and TelemetryProvider.withSpan.                *)
(*                                                                         *)
(* ConfigModule.forRoot reads a .env file into process.env where a         *)
(* variable is not set already; the early initFromEnv may run without it,  *)
(* so the configuration the provider is given may enable telemetry when    *)
(* the early one did not.                                                  *)
(***************************************************************************)
MaxSpans == 2

Spans == 1..MaxSpans

\* The telemetry variables of process.env as they may be set
TelemetryEnv ==
  [ TELEMETRY_ENABLED : {Absent, <<"true">>, <<"TRUE">>, <<"false">>},
    OTEL_EXPORTER_OTLP_ENDPOINT : {Absent},
    OTEL_SERVICE_NAME : {Absent},
    OTEL_SERVICE_VERSION : {Absent},
    OTEL_EXPORT_INTERVAL_MS : {Absent, <<"0">>} ]

\* TELEMETRY_ENABLED as a .env file may set it
DotEnv == {Absent, <<"true">>}

\* process.env once the .env file was read: a variable already set wins.
WithDotEnv(source, dotenv) ==
  [source EXCEPT !.TELEMETRY_ENABLED =
     IF source.TELEMETRY_ENABLED = Absent
       THEN dotenv ELSE source.TELEMETRY_ENABLED]

\* A call of a method of the NodeSDK, with the function that made it.
SdkCall(method, caller) == [method |-> method, caller |-> caller]

\* Faulty variant of initFromConfig: an SDK that is there is replaced.
initFromConfigReplaces(cfg, state) ==
  IF ~cfg.telemetryEnabled
    THEN state
    ELSE [state EXCEPT
            !.sdk = "created",
            !.calls = Append(state.calls, SdkCall("new", "initFromConfig"))]

\* TelemetryProvider.initFromConfig(cfg): the SDK is created, and not
\* started, when telemetry is enabled and no SDK is there yet.
initFromConfig(cfg, state) ==
  IF ~cfg.telemetryEnabled \/ state.sdk # "undefined"
    THEN state
    ELSE [state EXCEPT
            !.sdk = "created",
            !.calls = Append(state.calls, SdkCall("new", "initFromConfig"))]

InitTelemetry ==
  /\ MainIdle
  /\ ConfigIdle
  /\ SsrAtRest
  /\ LoggerAtRest
  /\ spans = [s \in Spans |-> [pc |-> "idle", events |-> <<>>, out |-> <<>>]]
  /\ \E source \in TelemetryEnv, dotenv \in DotEnv :
       otel = [stage |-> "start", env |-> source, dotenv |-> dotenv,
               sdk |-> "undefined", calls |-> <<>>, appConfig |-> NoInstance]

\* app.bootstrap.ts line 4: TelemetryProvider.initFromEnv()
initFromEnv ==
  /\ otel.stage = "start"
  /\ LET cfg == validateConfigSliceOf("TelemetryConfig", otel.env)
     IN  otel' = IF cfg.threw
                   THEN [otel EXCEPT !.stage = "failed"]
                   ELSE initFromConfig(cfg.instance,
                                       [otel EXCEPT !.stage = "imported"])
  /\ UNCHANGED <<mainVars, boot, ssr, console, requests, spans>>

\* NestFactory.create: the provider is constructed with the appConfig that
\* ConfigModule loaded.
TelemetryProviderConstructor ==
  /\ otel.stage = "imported"
  /\ LET cfg == validateConfigSliceOf("TelemetryConfig",
                                      WithDotEnv(otel.env, otel.dotenv))
     IN  otel' = IF cfg.threw
                   THEN [otel EXCEPT !.stage = "failed"]
                   ELSE [otel EXCEPT !.stage = "constructed",
                                     !.appConfig = cfg.instance]
  /\ UNCHANGED <<mainVars, boot, ssr, console, requests, spans>>

\* Faulty variant of onModuleInit: start() is called whether or not an SDK
\* was created.
onModuleInitStartsAnyway ==
  /\ otel.stage = "constructed"
  /\ otel' = IF ~otel.appConfig.telemetryEnabled
               THEN [otel EXCEPT !.stage = "initialized"]
               ELSE [otel EXCEPT
                       !.stage = "initialized",
                       !.sdk = "started",
                       !.calls = Append(otel.calls,
                                        SdkCall("start", "onModuleInit"))]
  /\ UNCHANGED <<mainVars, boot, ssr, console, requests, spans>>

\* TelemetryProvider.onModuleInit: global.__otel_sdk?.start() when telemetry
\* is enabled
onModuleInit ==
  /\ otel.stage = "constructed"
  /\ otel' = IF ~otel.appConfig.telemetryEnabled \/ otel.sdk = "undefined"
               THEN [otel EXCEPT !.stage = "initialized"]
               ELSE [otel EXCEPT
                       !.stage = "initialized",
                       !.sdk = "started",
                       !.calls = Append(otel.calls,
                                        SdkCall("start", "onModuleInit"))]
  /\ UNCHANGED <<mainVars, boot, ssr, console, requests, spans>>

\* TelemetryProvider.onModuleDestroy: shutdown() when an SDK is there
onModuleDestroy ==
  /\ otel.stage = "initialized"
  /\ otel' = IF otel.sdk = "undefined"
               THEN [otel EXCEPT !.stage = "destroyed"]
               ELSE [otel EXCEPT
                       !.stage = "destroyed",
                       !.sdk = "shutdown",
                       !.calls = Append(otel.calls,
                                        SdkCall("shutdown", "onModuleDestroy"))]
  /\ UNCHANGED <<mainVars, boot, ssr, console, requests, spans>>

\* A thrown Response (React Router's control flow).
ThrownResponse == [kind |-> "Response", isError |-> FALSE]

\* The values fn may throw or reject with: an Error, a value that is not an
\* Error, a Response.
SpanThrown == {Thrown("timeout"), Thrown("nonError"), ThrownResponse}

\* The values fn may return or resolve with.
SpanResults == {"result"}

\* Faulty variant of isFetchResponse: every value is taken for a Response.
isFetchResponseAlways(error) == TRUE

\* isFetchResponse: error instanceof Response
isFetchResponse(error) == error.kind = "Response"

\* getName, getMessage, getStack: undefined (<<>>) where the value is no Error
getName(error) == IF error.isError THEN <<"name", error.kind>> ELSE String(error)
getMessage(error) == IF error.isError THEN ErrMessage(error) ELSE <<>>
getStack(error) == IF error.isError THEN ErrStack(error) ELSE <<>>

\* recordSpanException: recordException and setStatus(ERROR) on the span,
\* unless the value is a Response
recordSpanException(error, events) ==
  IF ~isFetchResponse(error)
    THEN events \o
           << <<"recordException", getName(error), getMessage(error),
                getStack(error)>>,
              <<"setStatus", "ERROR", getMessage(error)>> >>
    ELSE events

\* withSpan, fn returns a value that is no Promise: span.end(), return result
withSpanReturns(s) ==
  /\ otel.stage = "initialized"
  /\ spans[s].pc = "idle"
  /\ \E result \in SpanResults :
       spans' = [spans EXCEPT ![s] =
                   [pc |-> "returned", events |-> << <<"startSpan">>, <<"end">> >>,
                    out |-> <<result>>]]
  /\ UNCHANGED <<mainVars, boot, ssr, console, requests, otel>>

\* withSpan, fn throws: the catch block records, ends and throws again
withSpanThrows(s) ==
  /\ otel.stage = "initialized"
  /\ spans[s].pc = "idle"
  /\ \E error \in SpanThrown :
       spans' = [spans EXCEPT ![s] =
                   [pc |-> "threw",
                    events |-> Append(recordSpanException(error, << <<"startSpan">> >>),
                                      <<"end">>),
                    out |-> <<error>>]]
  /\ UNCHANGED <<mainVars, boot, ssr, console, requests, otel>>

\* Faulty variant of withSpanPromise: the span is ended when fn returns.
withSpanPromiseEndsAtOnce(s) ==
  /\ otel.stage = "initialized"
  /\ spans[s].pc = "idle"
  /\ spans' = [spans EXCEPT ![s] =
                 [pc |-> "pending", events |-> << <<"startSpan">>, <<"end">> >>,
                  out |-> <<>>]]
  /\ UNCHANGED <<mainVars, boot, ssr, console, requests, otel>>

\* withSpan, fn returns a Promise: the then and catch callbacks are attached
\* and the chained promise is returned
withSpanPromise(s) ==
  /\ otel.stage = "initialized"
  /\ spans[s].pc = "idle"
  /\ spans' = [spans EXCEPT ![s] =
                 [pc |-> "pending", events |-> << <<"startSpan">> >>, out |-> <<>>]]
  /\ UNCHANGED <<mainVars, boot, ssr, console, requests, otel>>

\* The promise resolves: .then ends the span and passes the value on
PromiseResolves(s) ==
  /\ spans[s].pc = "pending"
  /\ \E result \in SpanResults :
       spans' = [spans EXCEPT ![s].pc = "resolved",
                              ![s].events = Append(spans[s].events, <<"end">>),
                              ![s].out = <<result>>]
  /\ UNCHANGED <<mainVars, boot, ssr, console, requests, otel>>

\* The promise rejects: .catch records, ends the span and throws again
PromiseRejects(s) ==
  /\ spans[s].pc = "pending"
  /\ \E error \in SpanThrown :
       spans' = [spans EXCEPT
                   ![s].pc = "rejected",
                   ![s].events =
                      Append(recordSpanException(error, spans[s].events),
                             <<"end">>),
                   ![s].out = <<error>>]
  /\ UNCHANGED <<mainVars, boot, ssr, console, requests, otel>>

NextTelemetry ==
  \/ initFromEnv
  \/ TelemetryProviderConstructor
  \/ onModuleInit
  \/ onModuleDestroy
  \/ \E s \in Spans :
       \/ withSpanReturns(s)
       \/ withSpanThrows(s)
       \/ withSpanPromise(s)
       \/ PromiseResolves(s)
       \/ PromiseRejects(s)

SpecTelemetry == InitTelemetry /\ [][NextTelemetry]_vars

(***************************************************************************)
(* Properties of SpecTelemetry                                             *)
(***************************************************************************)
\* The places of span.end() among the calls made on a span.
EndIndexes(events) == {i \in 1..Len(events) : events[i][1] = "end"}

\* recordException and then setStatus(ERROR) were called, both before any
\* span.end().
RecordedBeforeEnd(events) ==
  \E i, j \in 1..Len(events) :
    /\ i < j
    /\ events[i][1] = "recordException"
    /\ events[j][1] = "setStatus"
    /\ events[j][2] = "ERROR"
    /\ \A k \in EndIndexes(events) : j < k

C17_SpanEndedOnceAfterFn ==
  \A s \in Spans :
    /\ spans[s].pc = "idle" => spans[s].events = <<>>
    /\ spans[s].pc = "pending" => EndIndexes(spans[s].events) = {}
    /\ spans[s].pc \in {"returned", "threw", "resolved", "rejected"}
         => EndIndexes(spans[s].events) = {Len(spans[s].events)}

\* One span is open while its promise is pending; the other was ended once
\* when its promise rejected.
C17_Witness ==
  /\ spans[1].pc = "pending"
  /\ EndIndexes(spans[1].events) = {}
  /\ spans[2].pc = "rejected"
  /\ Cardinality(EndIndexes(spans[2].events)) = 1

\* TELEMETRY_ENABLED as the provider's configuration sees it is 'true' in
\* some letter case.
TelemetryEnabledInEffect ==
  (IF otel.env.TELEMETRY_ENABLED # Absent
     THEN otel.env.TELEMETRY_ENABLED ELSE otel.dotenv)
    \in {<<"true">>, <<"TRUE">>, <<"True">>}

\* C18: initFromEnv and initFromConfig only create the SDK; start() is
\* called only by onModuleInit, only with telemetry enabled and only after
\* the SDK was created; shutdown() is called only by onModuleDestroy and only
\* after the SDK was created.  Before the provider's hooks run the SDK is at
\* most created.
C18_TelemetryLifecycleOrder ==
  /\ \A i \in 1..Len(otel.calls) :
       /\ otel.calls[i].caller = "initFromConfig" => otel.calls[i].method = "new"
       /\ otel.calls[i].method = "start"
            => /\ otel.calls[i].caller = "onModuleInit"
               /\ TelemetryEnabledInEffect
               /\ \E j \in 1..(i - 1) : otel.calls[j].method = "new"
       /\ otel.calls[i].method = "shutdown"
            => /\ otel.calls[i].caller = "onModuleDestroy"
               /\ \E j \in 1..(i - 1) : otel.calls[j].method = "new"
  /\ otel.stage \in {"start", "imported", "constructed", "failed"}
       => otel.sdk \in {"undefined", "created"}
  /\ otel.sdk \in {"started", "shutdown"}
       => \E j \in 1..Len(otel.calls) : otel.calls[j].method = "new"
  /\ otel.sdk = "started" => TelemetryEnabledInEffect

\* The SDK was created by the early call, started by onModuleInit and shut
\* down by onModuleDestroy.
C18_Witness ==
  /\ otel.stage = "destroyed"
  /\ otel.sdk = "shutdown"
  /\ otel.calls = <<SdkCall("new", "initFromConfig"),
                    SdkCall("start", "onModuleInit"),
                    SdkCall("shutdown", "onModuleDestroy")>>

(***************************************************************************)
(* SpecLogger: wrapWithNestLogger.  Every request that reaches the React   *)
(* Router handler runs the wrapper, which replaces console.warn and        *)
(* console.error for the time of the handler; requests overlap while a     *)
(* handler is awaited.  A console function is the native one or the        *)
(* override that a request installed.                                      *)
(***************************************************************************)
MaxRequests == 3

Requests == 1..MaxRequests

\* The functions that request r assigns to console.warn and console.error.
Override(r) == [warn |-> <<"override", r>>, error |-> <<"override", r>>]

NoRequest == [pc |-> "idle", origWarn |-> <<>>, origError |-> <<>>]

InitLogger ==
  /\ MainIdle
  /\ ConfigIdle
  /\ SsrAtRest
  /\ TelemetryAtRest
  /\ console = NativeConsole
  /\ requests = [r \in Requests |-> NoRequest]

\* The wrapper up to its await: origWarn and origError are read from
\* console, the overrides are installed, the handler is called.
wrapWithNestLogger(r) ==
  /\ requests[r].pc = "idle"
  /\ requests' = [requests EXCEPT ![r] =
                    [pc |-> "awaiting", origWarn |-> console.warn,
                     origError |-> console.error]]
  /\ console' = Override(r)
  /\ UNCHANGED <<mainVars, boot, ssr, otel, spans>>

\* The handler resolves: finally assigns origWarn and origError back.
LoggerHandlerResolves(r) ==
  /\ requests[r].pc = "awaiting"
  /\ console' = [warn |-> requests[r].origWarn, error |-> requests[r].origError]
  /\ requests' = [requests EXCEPT ![r].pc = "completed"]
  /\ UNCHANGED <<mainVars, boot, ssr, otel, spans>>

\* The handler rejects: catch logs and calls next(error), finally assigns
\* origWarn and origError back.
LoggerHandlerRejects(r) ==
  /\ requests[r].pc = "awaiting"
  /\ console' = [warn |-> requests[r].origWarn, error |-> requests[r].origError]
  /\ requests' = [requests EXCEPT ![r].pc = "threw"]
  /\ UNCHANGED <<mainVars, boot, ssr, otel, spans>>

NextLogger ==
  \E r \in Requests :
    \/ wrapWithNestLogger(r)
    \/ LoggerHandlerResolves(r)
    \/ LoggerHandlerRejects(r)

SpecLogger == InitLogger /\ [][NextLogger]_vars

\* C20: once every request that entered wrapWithNestLogger has completed or
\* thrown, console.warn and console.error are the functions that were there
\* before the first request; no request's override is still installed.
C20_ConsoleRestoredAfterRequests ==
  (\A r \in Requests : requests[r].pc # "awaiting")
    => /\ console.warn = <<"native">>
       /\ console.error = <<"native">>

(***************************************************************************)
(* SpecInit: any sequence of calls of TelemetryProvider.initFromEnv and    *)
(* initFromConfig in one process.  A NodeSDK instance is told by the place *)
(* of its construction among the SDK calls; global.__otel_sdk holds the    *)
(* instance constructed last, and nothing else assigns it.                 *)
(***************************************************************************)
MaxInitCalls == 3

\* global.__otel_sdk: undefined (<<>>) or the instance stored last
StoredSdk(state) ==
  IF state.sdk = "undefined"
    THEN <<>>
    ELSE <<CHOOSE i \in 1..Len(state.calls) :
             /\ state.calls[i].method = "new"
             /\ \A j \in (i + 1)..Len(state.calls) :
                  state.calls[j].method # "new">>

\* What initFromConfig(cfg) returns: undefined when telemetry is disabled,
\* else global.__otel_sdk as the call leaves it.
initFromConfigReturns(cfg, state) ==
  IF ~cfg.telemetryEnabled
    THEN <<>>
    ELSE StoredSdk(initFromConfig(cfg, state))

\* telemetryEnabled of the configuration a call was given.
Telemetry(cfg) == IF cfg.telemetryEnabled THEN "enabled" ELSE "disabled"

\* One call as it ended: what it was given ("threw" when it had none), what global.__otel_sdk held
\* before and after it, what it returned.
InitCall(fn, telemetry, before, after, returned) ==
  [fn |-> fn, telemetry |-> telemetry, before |-> before, after |-> after,
   returned |-> returned]

InitInit ==
  /\ MainIdle
  /\ ConfigIdle
  /\ SsrAtRest
  /\ LoggerAtRest
  /\ spans = <<>>
  /\ otel = [stage |-> "calls", sdk |-> "undefined", calls |-> <<>>,
             returns |-> <<>>]

\* TelemetryProvider.initFromConfig(cfg) with a validated TelemetryConfig
CallInitFromConfig ==
  /\ otel.stage = "calls"
  /\ Len(otel.returns) < MaxInitCalls
  /\ \E source \in TelemetryEnv :
       LET cfg == validateConfigSliceOf("TelemetryConfig", source)
           after == initFromConfig(cfg.instance, otel)
       IN  /\ ~cfg.threw
           /\ otel' = [after EXCEPT !.returns =
                Append(otel.returns,
                       InitCall("initFromConfig", Telemetry(cfg.instance),
                                StoredSdk(otel), StoredSdk(after),
                                initFromConfigReturns(cfg.instance, otel)))]
  /\ UNCHANGED <<mainVars, boot, ssr, console, requests, spans>>

\* TelemetryProvider.initFromEnv(env): validateConfigSlice throws, or the
\* validated slice goes to initFromConfig
CallInitFromEnv ==
  /\ otel.stage = "calls"
  /\ Len(otel.returns) < MaxInitCalls
  /\ \E source \in TelemetryEnv :
       LET cfg == validateConfigSliceOf("TelemetryConfig", source)
           after == initFromConfig(cfg.instance, otel)
       IN  otel' =
             IF cfg.threw
               THEN [otel EXCEPT !.returns =
                       Append(otel.returns,
                              InitCall("initFromEnv", "threw",
                                       StoredSdk(otel), StoredSdk(otel), <<>>))]
               ELSE [after EXCEPT !.returns =
                       Append(otel.returns,
                              InitCall("initFromEnv",
                                       Telemetry(cfg.instance),
                                       StoredSdk(otel), StoredSdk(after),
                                       initFromConfigReturns(cfg.instance,
                                                             otel)))]
  /\ UNCHANGED <<mainVars, boot, ssr, console, requests, spans>>

NextInit ==
  \/ CallInitFromConfig
  \/ CallInitFromEnv

SpecInit == InitInit /\ [][NextInit]_vars

\* C21: over any sequence of initFromConfig / initFromEnv calls, at most one
\* NodeSDK is ever constructed; every call with telemetry enabled returns
\* that one instance, which is the one stored; a call with telemetry
\* disabled returns undefined and leaves global.__otel_sdk as it found it,
\* and no call replaces an instance that is stored.
C21_AtMostOneSdk ==
  /\ Cardinality({i \in 1..Len(otel.calls) : otel.calls[i].method = "new"}) <= 1
  /\ \A i \in 1..Len(otel.returns) :
       LET call == otel.returns[i]
       IN  /\ call.telemetry = "enabled"
                => /\ call.returned # <<>>
                   /\ call.returned = call.after
                   /\ call.returned = StoredSdk(otel)
                   /\ \A j \in 1..Len(otel.returns) :
                        otel.returns[j].telemetry = "enabled"
                          => otel.returns[j].returned = call.returned
           /\ call.telemetry = "disabled"
                => call.returned = <<>> /\ call.after = call.before
           /\ call.before # <<>> => call.after = call.before

\* Two calls with telemetry enabled returned the same instance, and a call
\* with telemetry disabled after them returned undefined and left it stored.
C21_Witness ==
  /\ Len(otel.returns) = 3
  /\ otel.returns[1].telemetry = "enabled"
  /\ otel.returns[1].fn = "initFromEnv"
  /\ otel.returns[2].telemetry = "enabled"
  /\ otel.returns[2].fn = "initFromConfig"
  /\ otel.returns[2].returned = otel.returns[1].returned
  /\ otel.returns[3].telemetry = "disabled"
  /\ otel.returns[3].returned = <<>>
  /\ StoredSdk(otel) = otel.returns[1].returned

====
